---- MODULE Spec2Model ----
(***************************************************************************)
(* The dummy traffic plugin of navit (navit/traffic/dummy/traffic_dummy.c) *)
(* as a state machine: plugin instances created by traffic_dummy_new, each *)
(* polled through traffic_dummy_get_messages, next to a wall clock that    *)
(* time(NULL) reads.                                                       *)
(***************************************************************************)
EXTENDS Integers, Sequences, FiniteSets, TLC

(* ------------------------------ bounds --------------------------------- *)

\* Width in bits of the C type int of reports_requested (32 on the real
\* targets, scaled down so that the whole range of the counter is explored).
IntBits == 5

\* The wall clock runs from 0 to MaxClock seconds.
MaxClock == 1

\* The plugin instances the host may create.
Inst == {"a", "b"}

RECURSIVE Pow2(_)
Pow2(n) == IF n = 0 THEN 1 ELSE 2 * Pow2(n - 1)

INT_MAX == Pow2(IntBits - 1) - 1
INT_MIN == -Pow2(IntBits - 1)

\* Invocations explored per instance: once around the whole range of int
\* and two more.
MaxCalls == Pow2(IntBits) + 2

(* ------------------------- values and pointers ------------------------- *)

\* The null pointer to a structure (the array, a message, the navit handle).
NULL == [null |-> TRUE]

\* The null pointer passed for a char * argument.
NullString == "NULL"

Max(S) == CHOOSE x \in S : \A y \in S : y <= x

(* ----------------- constructors of the traffic framework --------------- *)

traffic_point_new(lon, lat, junction_name, junction_ref, tmc_id) ==
    [lon |-> lon, lat |-> lat, junction_name |-> junction_name,
     junction_ref |-> junction_ref, tmc_id |-> tmc_id]

traffic_location_new(at, from, to, destination, direction, directionality, fuzziness, ramps, road_type, road_name, road_ref, tmc_table, tmc_direction) ==
    [at |-> at, from |-> from, to |-> to, destination |-> destination,
     direction |-> direction, directionality |-> directionality,
     fuzziness |-> fuzziness, ramps |-> ramps, road_type |-> road_type,
     road_name |-> road_name, road_ref |-> road_ref,
     tmc_table |-> tmc_table, tmc_direction |-> tmc_direction]

traffic_message_new_single_event(id, receive_time, update_time, expiration_time, is_forecast, location, event_class, type) ==
    [id |-> id, receive_time |-> receive_time, update_time |-> update_time,
     expiration_time |-> expiration_time, is_forecast |-> is_forecast,
     is_cancellation |-> FALSE, location |-> location,
     events |-> << [event_class |-> event_class, type |-> type] >>]

traffic_message_new_cancellation(id, receive_time, update_time, expiration_time, location) ==
    [id |-> id, receive_time |-> receive_time, update_time |-> update_time,
     expiration_time |-> expiration_time, is_forecast |-> 0,
     is_cancellation |-> TRUE, location |-> location, events |-> << >>]

\* g_new0(struct traffic_message *, 3) with its first two slots assigned:
\* the third slot keeps the zero g_new0 wrote, the terminator.
MessageArray(m0, m1) == [slots |-> << m0, m1, NULL >>]

(* ------------------------------- state --------------------------------- *)

VARIABLES
    priv,       \* instance -> struct traffic_priv, for the instances created
    meth,       \* instance -> the method table traffic_dummy_new filled in
    clock,      \* the wall clock, in seconds
    calls,      \* instance -> number of invocations of get_messages so far
    caller,     \* the instance of the last invocation that returned
    ret,        \* the value that invocation returned
    feeds,      \* instance -> the non-NULL results returned so far, untimed
    aborted     \* the process was stopped by an overflow trap

vars == << priv, meth, clock, calls, caller, ret, feeds, aborted >>

(* ------------------------------ the clock ------------------------------ *)

\* The values three calls of time(NULL) can return from `now` on.  They are
\* the arguments of one call, so C leaves their order of evaluation open and
\* the clock may advance between any two of them.
Triples(now) == (now..MaxClock) \X (now..MaxClock) \X (now..MaxClock)

\* The six readings of one invocation: r[1] for messages[0], r[2] for
\* messages[1], each in the order of the arguments (receive, update,
\* expiration).  messages[0] is built before messages[1].
TimeReads(now) ==
    { r \in Triples(now) \X Triples(now) :
        \A k \in 1..3 : r[2][k] >= Max({r[1][1], r[1][2], r[1][3]}) }

\* The readings of an invocation during which the clock stands at `now`.
Still(now) == << <<now, now, now>>, <<now, now, now>> >>

LastRead(r) == Max({r[2][1], r[2][2], r[2][3]})

(* -------------------- traffic_dummy_get_messages ----------------------- *)

A9Location ==
    traffic_location_new(NullString,
        traffic_point_new("11.6208", "48.3164", "Neufahrn", "68", "12732-4"),
        traffic_point_new("11.5893", "48.429", "Allershausen", "67", "12732"),
        "Nürnberg", NullString, "location_dir_one",
        "location_fuzziness_low_res", "location_ramps_none",
        "type_highway_land", NullString, "A9", "58:1", -1)

A96Location ==
    traffic_location_new(NullString,
        traffic_point_new("11.4481", "48.1266", "Gräfelfing", "36b", "12961-2"),
        traffic_point_new("11.5028", "48.1258", "München-Laim", "38", "12961"),
        "München", NullString, "location_dir_one",
        "location_fuzziness_low_res", "location_ramps_none",
        "type_highway_land", NullString, "A96", "58:1", -1)

FirstFeedReordered(r) ==
    MessageArray(
        traffic_message_new_single_event("dummy:A96-36b-38", r[1][1], r[1][2],
            r[1][3] + 20, 0, A96Location, "event_class_congestion",
            "event_congestion_slow_traffic"),
        traffic_message_new_single_event("dummy:A9-68-67", r[2][1], r[2][2],
            r[2][3] + 20, 0, A9Location, "event_class_congestion",
            "event_congestion_queue"))

\* case 1
FirstFeed(r) ==
    MessageArray(
        traffic_message_new_single_event("dummy:A9-68-67", r[1][1], r[1][2],
            r[1][3] + 20, 0, A9Location, "event_class_congestion",
            "event_congestion_queue"),
        traffic_message_new_single_event("dummy:A96-36b-38", r[2][1], r[2][2],
            r[2][3] + 20, 0, A96Location, "event_class_congestion",
            "event_congestion_slow_traffic"))

SecondFeedNoCancellation(r) ==
    MessageArray(
        traffic_message_new_single_event("dummy:A9-68-67", r[1][1] - 10,
            r[1][2], r[1][3] + 10, 0, A9Location, "event_class_congestion",
            "event_congestion_queue"),
        traffic_message_new_single_event("dummy:A96-36b-38", r[2][1] - 10,
            r[2][2], r[2][3] + 10, 0, A96Location, "event_class_congestion",
            "event_congestion_slow_traffic"))

\* case 11
SecondFeed(r) ==
    MessageArray(
        traffic_message_new_single_event("dummy:A9-68-67", r[1][1] - 10,
            r[1][2], r[1][3] + 10, 0, A9Location, "event_class_congestion",
            "event_congestion_queue"),
        traffic_message_new_cancellation("dummy:A96-36b-38", r[2][1] - 10,
            r[2][2], r[2][3] + 10, A96Location))

SwitchEmptyArray(n, r) ==
    CASE n = 1  -> FirstFeed(r)
      [] n = 11 -> SecondFeed(r)
      [] OTHER  -> [slots |-> << NULL, NULL, NULL >>]

\* switch (this_->reports_requested)
Switch(n, r) ==
    CASE n = 1  -> FirstFeed(r)
      [] n = 11 -> SecondFeed(r)
      [] OTHER  -> NULL

\* The readings of an invocation that finds the counter at n: the clock is
\* read only where messages are built.
ReadsIn(n, now) ==
    IF Switch(n, Still(now)) = NULL THEN {Still(now)} ELSE TimeReads(now)

\* The value of an int after ++.  At INT_MAX the increment overflows, which
\* C leaves undefined: a build without trapping wraps to INT_MIN (this
\* operator), a build with -ftrapv stops the process (OverflowTrap).
PostIncrement(v) == IF v = INT_MAX THEN INT_MIN ELSE v + 1

RequestedShared(p, i) ==
    [j \in DOMAIN p |->
        [p[j] EXCEPT !.reports_requested = PostIncrement(@)]]

\* this_->reports_requested++
Requested(p, i) == [p EXCEPT ![i].reports_requested = PostIncrement(@)]

\* What a message says apart from its timestamps.
Digest(m) ==
    IF m = NULL THEN NULL
    ELSE [id |-> m.id, location |-> m.location,
          is_cancellation |-> m.is_cancellation, events |-> m.events]

\* A returned value without its timestamps, as recorded in feeds.
Batch(v) ==
    IF v = NULL THEN NULL
    ELSE [slots |-> [k \in DOMAIN v.slots |-> Digest(v.slots[k])]]

\* The counter of an instance after k invocations on it alone.
RECURSIVE CounterAlone(_)
CounterAlone(k) == IF k = 0 THEN 0 ELSE PostIncrement(CounterAlone(k - 1))

(* ------------------------------ actions -------------------------------- *)

Init ==
    /\ priv = << >>
    /\ meth = [i \in Inst |-> NULL]
    /\ clock = 0
    /\ calls = [i \in Inst |-> 0]
    /\ caller = "none"
    /\ ret = NULL
    /\ feeds = [i \in Inst |-> << >>]
    /\ aborted = FALSE

\* traffic_dummy_new: a zeroed struct traffic_priv, and the method table
\* copied to *meth.  The nav argument is not stored.
traffic_dummy_new(i) ==
    /\ ~aborted
    /\ i \notin DOMAIN priv
    /\ priv' = priv @@ (i :> [nav |-> NULL, reports_requested |-> 0])
    /\ meth' = [meth EXCEPT ![i] =
                   [get_messages |-> "traffic_dummy_get_messages"]]
    /\ UNCHANGED << clock, calls, caller, ret, feeds, aborted >>

\* One invocation that returns.
traffic_dummy_get_messages(i) ==
    /\ ~aborted
    /\ i \in DOMAIN priv
    /\ calls[i] < MaxCalls
    /\ priv' = Requested(priv, i)
    /\ \E r \in ReadsIn(priv'[i].reports_requested, clock) :
          /\ ret' = Switch(priv'[i].reports_requested, r)
          /\ clock' = LastRead(r)
    /\ calls' = [calls EXCEPT ![i] = @ + 1]
    /\ caller' = i
    /\ feeds' = IF ret' = NULL THEN feeds
                ELSE [feeds EXCEPT ![i] = Append(@, Batch(ret'))]
    /\ UNCHANGED << meth, aborted >>

\* The other outcome of the overflow of reports_requested++: the process
\* is stopped before the invocation returns.
OverflowTrap(i) ==
    /\ ~aborted
    /\ i \in DOMAIN priv
    /\ calls[i] < MaxCalls
    /\ priv[i].reports_requested = INT_MAX
    /\ aborted' = TRUE
    /\ UNCHANGED << priv, meth, clock, calls, caller, ret, feeds >>

\* A second passes.
Tick ==
    /\ ~aborted
    /\ clock < MaxClock
    /\ clock' = clock + 1
    /\ UNCHANGED << priv, meth, calls, caller, ret, feeds, aborted >>

Next ==
    \/ \E i \in Inst : traffic_dummy_new(i)
    \/ \E i \in Inst : traffic_dummy_get_messages(i)
    \/ \E i \in Inst : OverflowTrap(i)
    \/ Tick

Spec == Init /\ [][Next]_vars

(* ------------------------------ claims -------------------------------- *)

Returned(k) == caller # "none" /\ calls[caller] = k

IsEvent(m, id, class, type) ==
    /\ m # NULL
    /\ m.id = id
    /\ ~m.is_cancellation
    /\ m.events = << [event_class |-> class, type |-> type] >>

IsCancellation(m) == m # NULL /\ m.is_cancellation /\ m.events = << >>

IsPair(v) ==
    /\ v # NULL
    /\ Len(v.slots) = 3
    /\ v.slots[1] # NULL
    /\ v.slots[2] # NULL
    /\ v.slots[3] = NULL

SameSubject(m, d) == m.id = d.id /\ m.location = d.location

\* C1: the 1st call on an instance returns an array of exactly two messages
\* and the terminator: the single-event message "dummy:A9-68-67"
\* (congestion, queue), then the single-event message "dummy:A96-36b-38"
\* (congestion, slow traffic).
C1_FirstCall ==
    Returned(1) =>
        /\ IsPair(ret)
        /\ IsEvent(ret.slots[1], "dummy:A9-68-67", "event_class_congestion",
                   "event_congestion_queue")
        /\ IsEvent(ret.slots[2], "dummy:A96-36b-38", "event_class_congestion",
                   "event_congestion_slow_traffic")

C1_Witness ==
    /\ Returned(1)
    /\ ret # NULL
    /\ ret.slots[1].location.road_ref = "A9"

C4_AbsentForever ==
    (caller # "none" /\ calls[caller] >= 12) => ret = NULL

\* C5: the 10th call on an instance returns the A9 update and the A96
\* cancellation.
C5_TenthCall ==
    Returned(10) =>
        /\ IsPair(ret)
        /\ ret.slots[1].id = "dummy:A9-68-67"
        /\ ~ret.slots[1].is_cancellation
        /\ ret.slots[2].id = "dummy:A96-36b-38"
        /\ ret.slots[2].is_cancellation

\* C6: both messages of the 1st call have equal first-received and
\* last-updated timestamps and expire exactly 20 seconds after them.
C6_FirstCallTimes ==
    (Returned(1) /\ ret # NULL) =>
        \A k \in 1..2 :
            /\ ret.slots[k].receive_time = ret.slots[k].update_time
            /\ ret.slots[k].expiration_time = ret.slots[k].update_time + 20

\* C7: both messages of the 11th call were first received exactly 10
\* seconds before their last update and expire exactly 10 seconds after it.
C7_EleventhCallTimes ==
    (Returned(11) /\ ret # NULL) =>
        \A k \in 1..2 :
            /\ ret.slots[k].receive_time = ret.slots[k].update_time - 10
            /\ ret.slots[k].expiration_time = ret.slots[k].update_time + 10

\* C8: counters are per instance: under any interleaving of calls on the
\* instances, the counter of each instance is the one its own calls alone
\* produce, and the k-th call on an instance returns what the k-th call on
\* an instance driven alone returns (timestamps aside).
C8_PerInstance ==
    /\ \A i \in DOMAIN priv :
          priv[i].reports_requested = CounterAlone(calls[i])
    /\ caller # "none" =>
          Batch(ret) =
              Batch(Switch(CounterAlone(calls[caller]), Still(0)))

C8_Witness ==
    /\ DOMAIN priv = Inst
    /\ calls["a"] = 11
    /\ calls["b"] = 1
    /\ caller = "b"
    /\ ret # NULL
    /\ Len(feeds["a"]) = 2

\* C9: the counter of an instance equals the number of invocations made
\* on it, 0 after creation, and nav stays as created.
C9_CounterIsCallCount ==
    \A i \in DOMAIN priv :
        /\ priv[i].reports_requested = calls[i]
        /\ priv[i].nav = NULL

IsUpdateBatch(b) == b.slots[2] # NULL /\ b.slots[2].is_cancellation

\* C10: on each instance the initial batch is returned at most once, the
\* update/cancellation batch at most once, and only after the initial one.
C10_FeedOrder ==
    \A i \in Inst :
        /\ Cardinality({k \in DOMAIN feeds[i] : ~IsUpdateBatch(feeds[i][k])}) <= 1
        /\ Cardinality({k \in DOMAIN feeds[i] : IsUpdateBatch(feeds[i][k])}) <= 1
        /\ \A k \in DOMAIN feeds[i] :
              IsUpdateBatch(feeds[i][k]) =>
                  \E j \in 1..(k - 1) : ~IsUpdateBatch(feeds[i][j])

====
